---- MODULE Spec2Model ----
(***************************************************************************)
(* A model of the analysis algorithms of mozaik/analysis/analysis.py:      *)
(* AveragedOrientationTuning, the vector-average preference/selectivity    *)
(* estimator, the conductance spike triggered average (GSTA) and the       *)
(* Precision (PSTH autocorrelation) analysis.                              *)
(*                                                                         *)
(* Real-valued quantities are kept exact: a quotient is the reduced        *)
(* fraction <<numerator, denominator>>, an angle is a whole number of      *)
(* quarter turns (so that cos and sin are exact), and times are whole      *)
(* numbers of ticks.                                                       *)
(***************************************************************************)
EXTENDS Integers, Sequences, FiniteSets, TLC

VARIABLES
    pc,          \* position of the running analysis
    datastore,   \* self.datastore: the recordings the analysis was constructed with
    store,       \* self.datastore.full_datastore: the analysis results added so far
    dsv,         \* the local variable dsv of analyse()
    sheets,      \* the sheets the "for sheet in dsv.sheets()" loop still has to visit
    dsvs,        \* Precision: the partitions the inner loop still has to visit
    sheet,       \* the loop variable "sheet"
    params,      \* self.parameters, with the quantities derived from it
    cur,         \* the input being processed (parametrization / trial)
    acc          \* the accumulators of the running loop

vars == <<pc, datastore, store, dsv, sheets, dsvs, sheet, params, cur, acc>>

Idle == "idle"

----------------------------------------------------------------------------
(* Exact arithmetic *)

Abs(a) == IF a < 0 THEN -a ELSE a

RECURSIVE GCD(_, _)
GCD(a, b) == IF b = 0 THEN a ELSE GCD(b, a % b)

\* numpy's nan, the value of 0 / 0, and inf, the value of a / 0
NaN == [kind |-> "nan"]
Inf == [kind |-> "inf"]

\* the quotient n / d, d > 0, in lowest terms
Frac(n, d) ==
    LET g == GCD(Abs(n), d)
    IN [kind |-> "ratio", num |-> n \div g, den |-> d \div g]

\* numpy's true division n / d of floating point numbers, d >= 0: dividing by
\* zero raises nothing and yields nan or inf
Div(n, d) ==
    IF d # 0 THEN Frac(n, d) ELSE IF n = 0 THEN NaN ELSE Inf

RECURSIVE SeqSum(_)
SeqSum(s) == IF s = <<>> THEN 0 ELSE Head(s) + SeqSum(Tail(s))

RECURSIVE KSubsets(_, _)
KSubsets(S, k) ==
    IF k = 0 THEN {{}}
    ELSE LET P == KSubsets(S, k - 1) IN P \cup {p \cup {e} : p \in P, e \in S}

RECURSIVE SetToSeq(_)
SetToSeq(S) ==
    IF S = {} THEN <<>>
    ELSE LET e == CHOOSE e \in S : TRUE IN <<e>> \o SetToSeq(S \ {e})

----------------------------------------------------------------------------
(* The data store and its queries *)

MaxRecs == 3
MaxTrials == 2

SheetOrder == <<"V1_Exc", "V1_Inh">>
SheetNames == {SheetOrder[i] : i \in DOMAIN SheetOrder}
Grating == "FullfieldDriftingSinusoidalGrating"
Null == "Null"
Rates == {5, 10, 20}
Orientations == {0, 1}          \* in units of pi / 2
Trials == 1..MaxTrials

\* a stimulus descriptor: the stimulus name and its parameters 8 (trial) and 9
\* (orientation); a Null stimulus has one parametrization
StimulusIds ==
    [name : {Grating}, p8 : Trials, p9 : Orientations]
        \cup [name : {Null}, p8 : {1}, p9 : {0}]

\* the recordings (segments) of a sheet, each with its stimulus and its mean rate
Recordings == [sheet : SheetNames, stim : StimulusIds, mean_rate : Rates]

\* DataStoreView.sheets(): the sheets of a view, in the store's order
Sheets(view) ==
    SelectSeq(SheetOrder, LAMBDA s : \E r \in view : r.sheet = s)

select_stimuli_type_query(view, name) == {r \in view : r.stim.name = name}

select_result_sheet_query(view, s) == {r \in view : r.sheet = s}

\* a stimulus id with the parameters of parameter_indexes replaced by "*"
Collapsed(stim, parameter_indexes) ==
    [name |-> stim.name,
     p8 |-> IF 8 \in parameter_indexes THEN "*" ELSE ToString(stim.p8),
     p9 |-> IF 9 \in parameter_indexes THEN "*" ELSE ToString(stim.p9)]

\* colapse(l, stimuli, parameter_indexes): the values of the recordings, grouped
\* by their stimulus id with the parameters of parameter_indexes left out
colapse(recs, parameter_indexes) ==
    LET keys == {Collapsed(r.stim, parameter_indexes) : r \in recs}
    IN [k \in keys |->
          LET members == SetToSeq({r \in recs : Collapsed(r.stim, parameter_indexes) = k})
          IN [i \in DOMAIN members |-> members[i].mean_rate]]

----------------------------------------------------------------------------
(* AveragedOrientationTuning *)

\* the sum of a group, not divided by its size
_mean_nodiv(a) == Frac(SeqSum(a), 1)

\* def _mean(a): l = len(a); return sum(a)/l
_mean(a) ==
    LET l == Len(a) IN Frac(SeqSum(a), l)

\* colapse(mean_rates, st, parameter_indexes=[8])
CollapsedIndexes == {8}

CyclicTuningCurve(period, values, parameter_index, s) ==
    [type |-> "CyclicTuningCurve", period |-> period, values |-> values,
     parameter_index |-> parameter_index, sheet |-> s]

AOT_Init ==
    /\ pc = "aot_start"
    /\ datastore \in KSubsets(Recordings, MaxRecs)
    /\ store = <<>>
    /\ dsv = Idle
    /\ sheets = <<>>
    /\ dsvs = Idle
    /\ sheet = Idle
    /\ params = Idle
    /\ cur = Idle
    /\ acc = Idle

\* dsv = select_stimuli_type_query(...) and the evaluation of dsv.sheets()
AOT_Select ==
    /\ pc = "aot_start"
    /\ dsv' = select_stimuli_type_query(datastore, Grating)
    /\ sheets' = Sheets(dsv')
    /\ pc' = "aot_sheets"
    /\ UNCHANGED <<datastore, store, dsvs, sheet, params, cur, acc>>

\* one iteration of the loop over the sheets
AOT_Sheet ==
    /\ pc = "aot_sheets"
    /\ sheets # <<>>
    /\ LET dsv1 == select_result_sheet_query(dsv, Head(sheets))
           groups == colapse(dsv1, CollapsedIndexes)
           mean_rates == [k \in DOMAIN groups |-> _mean(groups[k])]
       IN store' = Append(store, CyclicTuningCurve("pi", mean_rates, 9, Head(sheets)))
    /\ sheet' = Head(sheets)
    /\ sheets' = Tail(sheets)
    /\ UNCHANGED <<pc, datastore, dsv, dsvs, params, cur, acc>>

AOT_Return ==
    /\ pc = "aot_sheets"
    /\ sheets = <<>>
    /\ pc' = "done"
    /\ UNCHANGED <<datastore, store, dsv, sheets, dsvs, sheet, params, cur, acc>>

AOT_Next == AOT_Select \/ AOT_Sheet \/ AOT_Return

SpecAOT == AOT_Init /\ [][AOT_Next]_vars

----------------------------------------------------------------------------
(* C1 *)

RECURSIVE SumRates(_)
SumRates(S) ==
    IF S = {} THEN 0
    ELSE LET r == CHOOSE r \in S : TRUE IN r.mean_rate + SumRates(S \ {r})

\* the recordings of sheet s that AveragedOrientationTuning selects
GratingRecs(s) == {r \in datastore : r.sheet = s /\ r.stim.name = Grating}

\* f is the arithmetic mean of the rates of the recordings of G
IsMeanOf(f, G) ==
    /\ G # {}
    /\ f.kind = "ratio"
    /\ f.den > 0
    /\ f.num * Cardinality(G) = f.den * SumRates(G)
    /\ \A c \in Rates : (\A r \in G : r.mean_rate = c) => f = Frac(c, 1)

\* C1 (as amended): every tuning curve stored for a sheet holds exactly one value
\* per group of that sheet's grating recordings that agree on every parameter
\* except parameter 8, the one colapse leaves out (the orientation, parameter 9,
\* stays in the key), and that value is the arithmetic mean of the rates of
\* exactly the recordings of the group: the sum divided by the group's size, so
\* that a group of one yields its rate and N equal rates yield that rate.
C1_GroupMean ==
    \A i \in DOMAIN store :
        LET tc == store[i]
            recs == GratingRecs(tc.sheet)
        IN /\ \A r \in recs : \E k \in DOMAIN tc.values :
                  k.name = r.stim.name /\ k.p9 = ToString(r.stim.p9)
           /\ \A k \in DOMAIN tc.values :
                  /\ k.p8 = "*"
                  /\ IsMeanOf(tc.values[k],
                              {r \in recs : r.stim.name = k.name
                                            /\ ToString(r.stim.p9) = k.p9})

\* C1, witness: rates 10 and 20 at orientation 0 and 5 at orientation pi/2 of
\* one sheet have been stored as the tuning curve {0: 15, pi/2: 5}
C1_Witness ==
    \E i \in DOMAIN store :
        LET tc == store[i]
            recs == GratingRecs(tc.sheet)
            at(o) == [name |-> Grating, p8 |-> "*", p9 |-> ToString(o)]
        IN /\ {r.mean_rate : r \in {q \in recs : q.stim.p9 = 0}} = {10, 20}
           /\ {r.mean_rate : r \in {q \in recs : q.stim.p9 = 1}} = {5}
           /\ DOMAIN tc.values = {at(0), at(1)}
           /\ tc.values[at(0)] = Frac(15, 1)
           /\ tc.values[at(1)] = Frac(5, 1)

\* C1 (as stated): the groups are the recordings that agree on every parameter
\* except the orientation, and the tuning curve stores the mean of each
C1_OrientationExcluded ==
    \A i \in DOMAIN store :
        LET tc == store[i]
            recs == GratingRecs(tc.sheet)
        IN \A r0 \in recs :
               \E k \in DOMAIN tc.values :
                   IsMeanOf(tc.values[k],
                            {r \in recs : r.stim.name = r0.stim.name
                                          /\ r.stim.p8 = r0.stim.p8})

----------------------------------------------------------------------------
(* PeriodicTuningCurvePreferenceAndSelectivity_VectorAverage *)

MaxResp == 2

\* the stimulus values of a tuning curve, in units of period / 4: the value p is
\* the angle p / period * 2 pi, that is p quarter turns
QuarterTurns == 0..3
Responses == 0..MaxResp

\* an angle of q quarter turns
Angle(q) == [kind |-> "quarter_turns", q |-> q]

\* numpy.cos and numpy.sin of j quarter turns
Cos4(j) == CASE j % 4 = 0 -> 1 [] j % 4 = 1 -> 0 [] j % 4 = 2 -> -1 [] OTHER -> 0
Sin4(j) == CASE j % 4 = 0 -> 0 [] j % 4 = 1 -> 1 [] j % 4 = 2 -> 0 [] OTHER -> -1

\* numpy.sqrt of a perfect square
ISqrt(q) == CHOOSE r \in 0..q : r * r = q

\* xx without the response as its weight
VA_xx_unweighted(v, p) == Cos4(p)

\* numpy.cos(p / tc.period * 2 * numpy.pi) * v
VA_xx(v, p) == Cos4(p) * v

\* numpy.sin(p / tc.period * 2 * numpy.pi) * v
VA_yy(v, p) == Sin4(p) * v

\* the norm of the x component alone
VA_norm_x(xx, yy) == Abs(xx)

\* the norm of one point's vector; one of xx, yy is zero at a whole quarter turn
VA_norm(xx, yy) == ISqrt(xx * xx + yy * yy)

\* sqrt(x^2 + y^2) / n: 0 / 0 is numpy's nan, otherwise the value is kept as the
\* square of its numerator over its denominator
VA_sel(x, y, n) ==
    IF n = 0 THEN NaN ELSE [kind |-> "sqrt_over", sqrt_of |-> x * x + y * y, over |-> n]

\* arccos(x / sqrt(x^2 + y^2)), in quarter turns where that is exact: arccos(1) = 0,
\* arccos(0) = pi / 2, arccos(-1) = pi; 0 / 0 is numpy's nan
VA_pref(x, y) ==
    IF x * x + y * y = 0 THEN NaN
    ELSE IF y = 0 /\ x > 0 THEN Angle(0)
    ELSE IF x = 0 THEN Angle(1)
    ELSE IF y = 0 /\ x < 0 THEN Angle(2)
    ELSE [kind |-> "arccos", of |-> x, over_sqrt_of |-> x * x + y * y]

PerNeuronValue(value, value_name, units, s) ==
    [type |-> "PerNeuronValue", value |-> value, value_name |-> value_name,
     units |-> units, sheet |-> s]

\* the (v, p) pairs of one parametrization of a tuning curve over the four
\* stimulus values 0, period / 4, period / 2, 3 period / 4
Parametrizations ==
    {[i \in 1..4 |-> <<f[i - 1], i - 1>>] : f \in [QuarterTurns -> Responses]}

VA_Init ==
    /\ pc = "va_sheets"
    /\ datastore = Idle
    /\ store = <<>>
    /\ dsv = Idle
    /\ sheets = SheetOrder
    /\ dsvs = Idle
    /\ sheet = Idle
    /\ params = Idle
    /\ cur = Idle
    /\ acc = Idle

\* the loops reach the next parametrization k of a tuning curve of the next sheet:
\* x = 0, y = 0, n = 0 and g, h = d[k]
VA_Begin ==
    /\ pc = "va_sheets"
    /\ sheets # <<>>
    /\ \E d \in Parametrizations : cur' = [period |-> "pi", points |-> d]
    /\ acc' = [x |-> 0, y |-> 0, n |-> 0, i |-> 1]
    /\ sheet' = Head(sheets)
    /\ sheets' = Tail(sheets)
    /\ pc' = "va_points"
    /\ UNCHANGED <<datastore, store, dsv, dsvs, params>>

\* one iteration of "for v, p in zip(g, h)"
VA_Point ==
    /\ pc = "va_points"
    /\ acc.i <= Len(cur.points)
    /\ LET v == cur.points[acc.i][1]
           p == cur.points[acc.i][2]
           xx == VA_xx(v, p)
           yy == VA_yy(v, p)
       IN acc' = [x |-> acc.x + xx, y |-> acc.y + yy,
                  n |-> acc.n + VA_norm(xx, yy), i |-> acc.i + 1]
    /\ UNCHANGED <<pc, datastore, store, dsv, sheets, dsvs, sheet, params, cur>>

\* after the loop: sel and pref are computed and the two results are added
VA_Emit ==
    /\ pc = "va_points"
    /\ acc.i > Len(cur.points)
    /\ LET sel == VA_sel(acc.x, acc.y, acc.n)
           pref == VA_pref(acc.x, acc.y)
       IN store' = store \o
             <<PerNeuronValue(pref, "orientation preference", "rad", sheet),
               PerNeuronValue(sel, "orientation selectivity", "dimensionless", sheet)>>
    /\ pc' = "va_sheets"
    /\ UNCHANGED <<datastore, dsv, sheets, dsvs, sheet, params, cur, acc>>

VA_Return ==
    /\ pc = "va_sheets"
    /\ sheets = <<>>
    /\ pc' = "done"
    /\ UNCHANGED <<datastore, store, dsv, sheets, dsvs, sheet, params, cur, acc>>

VA_Next == VA_Begin \/ VA_Point \/ VA_Emit \/ VA_Return

SpecVA == VA_Init /\ [][VA_Next]_vars

\* the parametrization just emitted, with the two results added for it
VA_Emitted == pc \in {"va_sheets", "done"} /\ store # <<>>
LastPref == store[Len(store) - 1].value
LastSel == store[Len(store)].value

\* the stimulus values at which the emitted parametrization responds
NonZeroAt == {i \in DOMAIN cur.points : cur.points[i][1] # 0}

\* C5 (corrected statement): for a tuning curve that responds at exactly one
\* stimulus value p, the selectivity is 1; the preference is p's angle
\* p / period * 2 pi when p <= period / 2, and 2 pi minus that angle when
\* p > period / 2 (arccos folds the angle into [0, pi])
C5_SinglePointFolded ==
    (VA_Emitted /\ Cardinality(NonZeroAt) = 1) =>
        LET p == cur.points[CHOOSE i \in NonZeroAt : TRUE][2]
        IN /\ LastSel # NaN
           /\ LastSel.over > 0
           /\ LastSel.sqrt_of = LastSel.over * LastSel.over
           /\ LastPref = IF p <= 2 THEN Angle(p) ELSE Angle(4 - p)

\* C5, witness: a curve responding only at p = period / 4 (a quarter turn) was
\* emitted with selectivity 1 and preference pi / 2
C5_Witness ==
    /\ VA_Emitted
    /\ NonZeroAt # {}
    /\ \A i \in NonZeroAt : cur.points[i][2] = 1
    /\ LastPref = Angle(1)
    /\ LastSel # NaN
    /\ LastSel.sqrt_of = LastSel.over * LastSel.over

\* C5 (as stated): for a tuning curve that responds at exactly one stimulus
\* value p in [0, period), the selectivity is 1 and the preference is p's angle
C5_SinglePointAngle ==
    (VA_Emitted /\ Cardinality(NonZeroAt) = 1) =>
        LET p == cur.points[CHOOSE i \in NonZeroAt : TRUE][2]
        IN /\ LastSel # NaN
           /\ LastSel.sqrt_of = LastSel.over * LastSel.over
           /\ LastPref = Angle(p)

\* C6: after any number of accumulated points x^2 + y^2 <= n^2, and an emitted
\* selectivity with n # 0 is sqrt(x^2 + y^2) / n with 0 <= x^2 + y^2 <= n^2, so it
\* lies in [0, 1]
C6_SelectivityInUnitInterval ==
    /\ pc = "va_points" =>
          /\ acc.n >= 0
          /\ acc.x * acc.x + acc.y * acc.y <= acc.n * acc.n
    /\ (VA_Emitted /\ acc.n # 0) =>
          /\ LastSel = [kind |-> "sqrt_over", sqrt_of |-> acc.x * acc.x + acc.y * acc.y,
                        over |-> acc.n]
          /\ LastSel.over > 0
          /\ 0 <= LastSel.sqrt_of
          /\ LastSel.sqrt_of <= LastSel.over * LastSel.over

\* C6, witness: a selectivity strictly between 0 and 1 was emitted for a curve
\* that responds at several stimulus values
C6_Witness ==
    /\ VA_Emitted
    /\ Cardinality(NonZeroAt) >= 2
    /\ LastSel # NaN
    /\ 0 < LastSel.sqrt_of
    /\ LastSel.sqrt_of < LastSel.over * LastSel.over

\* C7: no preference or selectivity obtained by dividing by a zero magnitude sum
\* is ever stored
C7_ZeroMagnitudeHandled ==
    \A i \in DOMAIN store : store[i].value # NaN

----------------------------------------------------------------------------
(* GSTA.do_gsta, for one neuron n *)

MaxLen == 3
MaxSpikes == 1
MaxPairs == 2
MaxLength == 3

\* times are whole ticks; a sampling period of two ticks lets a spike fall
\* between two samples
SamplingPeriods == {2}
TStarts == {2}
Conductances == {0, 1}
Lengths == 0..MaxLength

\* the conductance traces ans[:, n]: t_start and the samples
Traces ==
    UNION {[t_start : TStarts, samples : [1..l -> Conductances]] : l \in 1..MaxLen}

\* AnalogSignal.t_stop
TStop(ans, dt) == ans.t_start + Len(ans.samples) * dt

RECURSIVE SortedSeqs(_, _)
\* the sorted sequences of at most k times of T
SortedSeqs(T, k) ==
    IF k = 0 THEN {<<>>}
    ELSE LET P == SortedSeqs(T, k - 1)
         IN P \cup {Append(q, t) : q \in {q \in P : Len(q) = k - 1},
                                   t \in T}

IsSorted(q) == \A i \in 1..(Len(q) - 1) : q[i] <= q[i + 1]

\* the spike trains spike[n] that may come with a trace: spike times from one
\* tick before the trace starts to one tick after it stops
SpikeTrains(ans, dt) ==
    {q \in SortedSeqs((ans.t_start - 1)..(TStop(ans, dt) + 1), MaxSpikes) : IsSorted(q)}

\* int(self.parameters.length / dt)
GSTA_gstal(length, dt) == length \div dt

\* numpy.zeros(2 * gstal + 1,)
GSTA_zeros(gstal) == [i \in 1..(2 * gstal + 1) |-> 0]

\* int((time - ans.t_start) / dt), for time > ans.t_start
GSTA_idx(time, ans, dt) == (time - ans.t_start) \div dt

\* time > ans.t_start and time < ans.t_stop
GSTA_in_bounds(time, ans, dt) == time > ans.t_start /\ time < TStop(ans, dt)

\* idx - gstal > 0 and (idx + gstal + 1) <= len(ans[:, n])
GSTA_window_fits(idx, gstal, ans) ==
    idx - gstal > 0 /\ (idx + gstal + 1) <= Len(ans.samples)

\* ans[idx - gstal : idx + gstal + 1, n], for 0 <= idx - gstal (0-based slice)
GSTA_window(ans, idx, gstal) ==
    SubSeq(ans.samples, idx - gstal + 1, idx + gstal + 1)

\* count without the test for zero
GSTA_divisor_unguarded(count) == count

\* if count == 0: count = 1
GSTA_divisor(count) == IF count = 0 THEN 1 ELSE count

AnalogSignal(signal, t_start, sampling_period) ==
    [type |-> "AnalogSignal", signal |-> signal, t_start |-> t_start,
     sampling_period |-> sampling_period]

NoTrace == [t_start |-> 0, samples |-> <<>>]

\* do_gsta is entered: dt, gstal, gsta and count are set
GSTA_Init ==
    /\ pc = "gsta_zip"
    /\ datastore = Idle
    /\ store = <<>>
    /\ dsv = Idle
    /\ sheets = <<>>
    /\ dsvs = Idle
    /\ sheet = Idle
    /\ \E length \in Lengths, dt \in SamplingPeriods :
           /\ params = [length |-> length, dt |-> dt, gstal |-> GSTA_gstal(length, dt)]
           /\ acc = [gsta |-> GSTA_zeros(GSTA_gstal(length, dt)), count |-> 0]
    \* pairs: the (ans, spike) pairs zip has yielded; pos: the next spike of sp;
    \* qualified: how many spikes have been accumulated (a history variable)
    /\ cur = [pairs |-> 0, ans |-> NoTrace, sp |-> <<>>,
              pos |-> 1, qualified |-> 0]

\* zip(analog_signal, sp) yields the next pair: (ans, spike) are bound to it
GSTA_Pair ==
    /\ pc = "gsta_zip"
    /\ \E ans \in Traces :
           \E spike \in SpikeTrains(ans, params.dt) :
               cur' = [cur EXCEPT !.pairs = @ + 1, !.ans = ans, !.sp = spike, !.pos = 1]
    /\ pc' = "gsta_spikes"
    /\ UNCHANGED <<datastore, store, dsv, sheets, dsvs, sheet, params, acc>>

\* "for time in spike[n]" is over and zip has another pair to yield
GSTA_EndPair ==
    /\ pc = "gsta_spikes"
    /\ cur.pos > Len(cur.sp)
    /\ cur.pairs < MaxPairs
    /\ cur' = [cur EXCEPT !.ans = NoTrace, !.sp = <<>>, !.pos = 1]
    /\ pc' = "gsta_zip"
    /\ UNCHANGED <<datastore, store, dsv, sheets, dsvs, sheet, params, acc>>

\* one iteration of "for time in spike[n]"
GSTA_Spike ==
    /\ pc = "gsta_spikes"
    /\ cur.pos <= Len(cur.sp)
    /\ LET time == cur.sp[cur.pos]
           idx == GSTA_idx(time, cur.ans, params.dt)
       IN IF /\ GSTA_in_bounds(time, cur.ans, params.dt)
             /\ GSTA_window_fits(idx, params.gstal, cur.ans)
          THEN /\ acc' = [gsta |-> [i \in DOMAIN acc.gsta |->
                                       acc.gsta[i]
                                         + GSTA_window(cur.ans, idx, params.gstal)[i]],
                          count |-> acc.count + 1]
               /\ cur' = [cur EXCEPT !.pos = @ + 1, !.qualified = @ + 1]
          ELSE /\ acc' = acc
               /\ cur' = [cur EXCEPT !.pos = @ + 1]
    /\ UNCHANGED <<pc, datastore, store, dsv, sheets, dsvs, sheet, params>>

\* "for time in spike[n]" is over and zip is exhausted: the sum is divided and returned as an AnalogSignal
GSTA_Return ==
    /\ pc = "gsta_spikes"
    /\ cur.pos > Len(cur.sp)
    /\ LET count == GSTA_divisor(acc.count)
           gsta == [i \in DOMAIN acc.gsta |-> Div(acc.gsta[i], count)]
       IN /\ acc' = [gsta |-> gsta, count |-> count]
          /\ store' = Append(store, AnalogSignal(gsta, -params.gstal * params.dt,
                                                 params.dt))
    /\ pc' = "done"
    /\ UNCHANGED <<datastore, dsv, sheets, dsvs, sheet, params, cur>>

GSTA_Next == GSTA_Pair \/ GSTA_Spike \/ GSTA_EndPair \/ GSTA_Return

SpecGSTA == GSTA_Init /\ [][GSTA_Next]_vars

----------------------------------------------------------------------------
(* Precision *)

MaxBins == 2

BinLengths == {1, 2}
HistCounts == {0, 1, 2}
Conditions == {"a", "b"}
Neurons == <<0>>

\* the recordings of the Precision data store: the sheet and the stimulus
\* parameters 7 (the condition) and 8 (the trial)
PrecRecordings == [sheet : SheetNames, stim : [p7 : Conditions, p8 : {1, 2}]]

\* partition_by_stimulus_paramter_query(view, 7): one view per value of
\* parameter 7 that occurs in the view
partition_by_stimulus_paramter_query(view) ==
    SetToSeq({{r \in view : r.stim.p7 = c} : c \in {r.stim.p7 : r \in view}})

\* time_histogram_across_trials(sl, bin_length)[n]: the spike counts of the
\* bins of [t_start, t_stop), summed over the trials
Histograms(bins) == [1..bins -> HistCounts]

RECURSIVE SumOver(_, _)
\* the sum of f[i] over i in S
SumOver(f, S) ==
    IF S = {} THEN 0
    ELSE LET i == CHOOSE i \in S : TRUE IN f[i] + SumOver(f, S \ {i})

\* numpy.correlate(a, v, mode='full'): sample k (0-based) is the sum of
\* a[n + k - (N - 1)] * v[n] over the n for which both exist
Correlate(a, v) ==
    LET N == Len(a)
    IN [k \in 1..(2 * N - 1) |->
          LET ns == {n \in 1..N : n + k - N \in 1..N}
          IN SumOver([n \in ns |-> a[n + k - N] * v[n]], ns)]

\* numpy.sum(numpy.power(h, 2))
SumOfSquares(h) == SumOver([i \in DOMAIN h |-> h[i] * h[i]], DOMAIN h)

\* the autocorrelation divided without the test for zero
Prec_ac_unguarded(h) ==
    LET ac == Correlate(h, h)
    IN [k \in DOMAIN ac |-> Div(ac[k], SumOfSquares(h))]

\* ac = numpy.correlate(h, h, mode='full'), divided by the sum of squares
\* unless that is zero
Prec_ac(h) ==
    LET ac == Correlate(h, h)
    IN IF SumOfSquares(h) # 0
       THEN [k \in DOMAIN ac |-> Div(ac[k], SumOfSquares(h))]
       ELSE [k \in DOMAIN ac |-> Frac(ac[k], 1)]

\* the result added for one partition; segments are the recordings whose spike
\* trains went into the histogram
AnalogSignalList(asl, s, segments) ==
    [type |-> "AnalogSignalList", asl |-> asl, sheet |-> s, y_axis_name |-> "autocorrelation",
     segments |-> segments]

\* analyse is entered: dsv = self.datastore, and dsv.sheets() is evaluated
Prec_Init ==
    /\ pc = "prec_sheets"
    /\ datastore \in KSubsets(PrecRecordings, MaxRecs)
    /\ store = <<>>
    /\ dsv = datastore
    /\ sheets = Sheets(datastore)
    /\ dsvs = <<>>
    /\ sheet = Idle
    /\ \E bin_length \in BinLengths, bins \in 1..MaxBins :
           params = [bin_length |-> bin_length, t_start |-> 0,
                     t_stop |-> bins * bin_length]
    /\ cur = [hist |-> <<>>]
    /\ acc = Idle

\* the next sheet: dsv1 = select_result_sheet_query(dsv, sheet) and its partitions
Prec_Sheet ==
    /\ pc = "prec_sheets"
    /\ sheets # <<>>
    /\ LET dsv1 == select_result_sheet_query(dsv, Head(sheets))
       IN dsvs' = partition_by_stimulus_paramter_query(dsv1)
    /\ sheet' = Head(sheets)
    /\ sheets' = Tail(sheets)
    /\ pc' = "prec_partitions"
    /\ UNCHANGED <<datastore, store, dsv, params, cur, acc>>

\* one iteration of "for dsv in dsvs": the loop variable is analyse's dsv
Prec_Partition ==
    /\ pc = "prec_partitions"
    /\ dsvs # <<>>
    /\ dsv' = Head(dsvs)
    /\ dsvs' = Tail(dsvs)
    /\ LET duration == params.t_stop - params.t_start
           bins == duration \div params.bin_length
       IN \E hist \in [DOMAIN Neurons -> Histograms(bins)] :
              /\ cur' = [hist |-> hist]
              /\ LET al == [n \in DOMAIN Neurons |->
                              AnalogSignal(Prec_ac(hist[n]), -duration, params.bin_length)]
                 IN store' = Append(store, AnalogSignalList(al, sheet, dsv'))
    /\ UNCHANGED <<pc, datastore, sheets, sheet, params, acc>>

\* "for dsv in dsvs" is over
Prec_EndSheet ==
    /\ pc = "prec_partitions"
    /\ dsvs = <<>>
    /\ pc' = "prec_sheets"
    /\ UNCHANGED <<datastore, store, dsv, sheets, dsvs, sheet, params, cur, acc>>

Prec_Return ==
    /\ pc = "prec_sheets"
    /\ sheets = <<>>
    /\ pc' = "done"
    /\ UNCHANGED <<datastore, store, dsv, sheets, dsvs, sheet, params, cur, acc>>

Prec_Next == Prec_Sheet \/ Prec_Partition \/ Prec_EndSheet \/ Prec_Return

SpecPrec == Prec_Init /\ [][Prec_Next]_vars

----------------------------------------------------------------------------
(* C2, C3, C4 *)

\* the waveform do_gsta returned
Returned == store[Len(store)]

\* C2: a spike is accumulated and counted if and only if its time lies within the
\* trace's time bounds and the window of gstal samples on both sides of its
\* sample index fits inside the trace, 0 <= idx - gstal and
\* idx + gstal + 1 <= trace length; any other spike changes neither sum nor count
C2_AccumulatedIffWindowFits ==
    [][GSTA_Spike =>
          LET time == cur.sp[cur.pos]
              idx == GSTA_idx(time, cur.ans, params.dt)
              fits == /\ GSTA_in_bounds(time, cur.ans, params.dt)
                      /\ 0 <= idx - params.gstal
                      /\ idx + params.gstal + 1 <= Len(cur.ans.samples)
          IN /\ fits => acc'.count = acc.count + 1
             /\ ~fits => acc' = acc]_vars

\* C3: when no spike qualified in any trial, the divisor is 1 and the returned
\* waveform has exactly 2 * gstal + 1 samples, all zero, with
\* gstal = floor(length / sampling period)
C3_NoSpikeAllZero ==
    (pc = "done" /\ cur.qualified = 0) =>
        /\ acc.count = 1
        /\ params.gstal * params.dt <= params.length
        /\ params.length < (params.gstal + 1) * params.dt
        /\ DOMAIN Returned.signal = 1..(2 * params.gstal + 1)
        /\ \A i \in DOMAIN Returned.signal : Returned.signal[i] = Frac(0, 1)

\* C3, witness: do_gsta returned with a window of gstal >= 1 after the only
\* spikes it met had been skipped
C3_Witness ==
    /\ pc = "done"
    /\ cur.qualified = 0
    /\ cur.sp # <<>>
    /\ params.gstal >= 1
    /\ Len(Returned.signal) = 3

\* a single trial of constant conductance c with one spike at the trace midpoint
SingleMidpointSpike(c) ==
    /\ cur.pairs = 1
    /\ \A i \in DOMAIN cur.ans.samples : cur.ans.samples[i] = c
    /\ cur.sp = <<cur.ans.t_start + (Len(cur.ans.samples) * params.dt) \div 2>>

\* C4: for a single trial of constant conductance c with one spike exactly at
\* the trace midpoint, whenever the window of 2 * gstal + 1 samples fits inside
\* the trace, the returned waveform equals c at each of its 2 * gstal + 1 samples
C4_ConstantTraceMidpoint ==
    \A c \in Conductances :
        (/\ pc = "done"
         /\ SingleMidpointSpike(c)
         /\ 2 * params.gstal + 1 <= Len(cur.ans.samples)) =>
            /\ DOMAIN Returned.signal = 1..(2 * params.gstal + 1)
            /\ \A i \in DOMAIN Returned.signal : Returned.signal[i] = Frac(c, 1)

----------------------------------------------------------------------------
(* C8, C9, C10 *)

\* the histogram bins of the run
Bins == (params.t_stop - params.t_start) \div params.bin_length

\* the autocorrelation of h at a lag: the sum of h[i] * h[j] over i - j = lag
AutoCorrelation(h, lag) ==
    LET pairs == {q \in (DOMAIN h) \X (DOMAIN h) : q[1] - q[2] = lag}
    IN SumOver([q \in pairs |-> h[q[1]] * h[q[2]]], pairs)

\* the traces stored for the histograms of the last partition
LastTraces == store[Len(store)].asl

\* C8: for a neuron whose histogram of N bins is all zero the stored trace has
\* exactly 2N - 1 samples, all zero, no division taking place; for a histogram
\* with a non-zero sum of squares every sample is the full-mode autocorrelation
\* divided by that sum of squares
C8_AutocorrelationNormalised ==
    (store # <<>> /\ cur.hist # <<>>) =>
        \A n \in DOMAIN Neurons :
            LET h == cur.hist[n]
                sig == LastTraces[n].signal
            IN /\ DOMAIN sig = 1..(2 * Len(h) - 1)
               /\ Len(h) = Bins
               /\ \A k \in DOMAIN sig :
                      /\ sig[k].kind = "ratio"
                      /\ IF \A i \in DOMAIN h : h[i] = 0
                         THEN sig[k] = Frac(0, 1)
                         ELSE sig[k].num * SumOfSquares(h)
                                = sig[k].den * AutoCorrelation(h, k - Len(h))

\* C8, witness: an all-zero histogram of two bins has been stored as three zeros
C8_Witness ==
    /\ store # <<>>
    /\ cur.hist # <<>>
    /\ cur.hist[1] = <<0, 0>>
    /\ LastTraces[1].signal = <<Frac(0, 1), Frac(0, 1), Frac(0, 1)>>

\* the time of sample i (0-based) of an AnalogSignal
TimeOf(sig, i) == sig.t_start + i * sig.sampling_period

\* C9: every stored trace starts at -duration with spacing bin_length and
\* 2N - 1 samples, and its zero-lag sample, index N - 1, is the sample at time
\* 0, the other samples lying symmetrically around it
C9_ZeroLagAtTimeZero ==
    \A r \in DOMAIN store : \A n \in DOMAIN store[r].asl :
        LET sig == store[r].asl[n]
        IN /\ sig.t_start = -(params.t_stop - params.t_start)
           /\ sig.sampling_period = params.bin_length
           /\ Len(sig.signal) = 2 * Bins - 1
           /\ TimeOf(sig, Bins - 1) = 0
           /\ TimeOf(sig, 0) = -TimeOf(sig, 2 * Bins - 2)

\* C10: when the analysis is over, every partition (by parameter 7) of the
\* recordings of every sheet of the data store the analysis was constructed
\* with has its AnalogSignalList stored under that sheet, computed from that
\* partition's recordings only
C10_EverySheetFromTheDatastore ==
    pc = "done" =>
        \A s \in SheetNames :
            \A c \in Conditions :
                LET part == {r \in datastore : r.sheet = s /\ r.stim.p7 = c}
                IN part # {} =>
                      \E r \in DOMAIN store :
                          store[r].sheet = s /\ store[r].segments = part

====
